---- MODULE Spec2Model ----
(***************************************************************************)
(* Model of src/i3d.py: the VideoDataset reader (__getitem__) and the      *)
(* training / validation loop of main().                                   *)
(*                                                                         *)
(* Two specifications share the module:                                    *)
(*   SpecData  the dataset reader called on the rows of an annotation      *)
(*             table, over a family of disk contents;                      *)
(*   Spec      main(): one action per statement group of the loop.         *)
(*                                                                         *)
(* Tensors are abstracted as follows.  A frame (3 x 224 x 224) is          *)
(* spatially uniform and is kept as the triple of its three channel        *)
(* values; a channel value is the                                          *)
(* exact rational (1000*px - 255*MEAN[c]) / (255*STD[c]) of which only the *)
(* numerator is stored (the denominator is fixed per channel).  The        *)
(* network's outputs are opaque: the forward pass draws the predicted      *)
(* classes from a bounded family, the loss is an integer stand-in.         *)
(***************************************************************************)
EXTENDS Integers, Sequences, FiniteSets, TLC

\* ---------------------------------------------------------------- constants
DATA_DIR == "data/raw_frames"
NUM_CLASSES == 11
BATCH_SIZE == 8
EPOCHS == 1
NumFrames == 450
LabelShift == 2
FpsFactor == 30
PadWidth == 5
MEAN == <<485, 456, 406>>
STD == <<229, 224, 225>>

\* ------------------------------------------------------------------- bounds
HoleSpan == 1
MaxTrain == 17
MaxVal == 9
MaxSeed == 2
MaxRot == 1

VARIABLES
    \* dataset reader
    disk,          \* the frame files that exist, per video directory
    item,          \* what the latest __getitem__ call returned (and printed)
    prevItem,      \* what the call before it returned
    \* main
    pc,            \* position of main
    trainAnn,      \* rows of the training CSV
    valAnn,        \* rows of the validation CSV
    epoch,         \* loop variable of "for epoch in range(EPOCHS)"
    mode,          \* model.train() / model.eval()
    running_loss, val_loss, correct, total,
    order,         \* index order of the loader being iterated
    pos,           \* batches the current loader iteration has yielded
    labels,        \* labels of the current batch
    predicted,     \* outputs.max(1) of the current batch
    loss,          \* loss.item() of the current batch
    gradFrom,      \* batches whose backward pass is accumulated in .grad
    paramsVer,     \* optimizer steps applied (parameters and Adam state)
    scalerVer,     \* GradScaler updates applied
    stdout,        \* the reports printed by main
    ops,           \* history: framework calls made for the current batch
    counts,        \* history: framework calls made in this training phase
    processed,     \* history: batches completed in the current phase
    seen,          \* history: samples accumulated in the current phase
    visited,       \* history: batches yielded, over the whole run
    trainEnd       \* history: trainable state when the training loop ended

dataVars == <<disk, item, prevItem>>
mainVars == <<pc, trainAnn, valAnn, epoch, mode, running_loss, val_loss, correct,
              total, order, pos, labels, predicted, loss, gradFrom, paramsVer,
              scalerVer, stdout, ops, counts, processed, seen, visited, trainEnd>>
vars == <<dataVars, mainVars>>

Min(a, b) == IF a < b THEN a ELSE b

\* ------------------------------------------------------------ annotation rows
Row(v, k10, box, c) ==
    [video_name |-> v, keyframe10 |-> k10, box |-> box, behavior_category |-> c]

\* The annotation table the reader is exercised on (keyframe in tenths of a
\* second, box as x1, y1, x2, y2): rows sharing a video differ in keyframe,
\* box and category, and the categories straddle both ends of 2..12.
Annotations ==
    << Row("vidA", 0, <<0, 0, 5, 5>>, 2), Row("vidA", 15, <<1, 2, 3, 4>>, 12),
       Row("vidA", 150, <<0, 0, 5, 5>>, 1), Row("vidB", 0, <<2, 2, 4, 4>>, 13),
       Row("vidB", 20, <<0, 1, 9, 9>>, 7), Row("vidB", 20, <<0, 1, 9, 8>>, 0) >>

Videos == {Annotations[k].video_name : k \in 1..Len(Annotations)}

DatasetLen(ann) == Len(ann)

\* ---------------------------------------------------------------- file names
RECURSIVE DigitsOf(_)
DigitsOf(n) == IF n < 10 THEN <<n>> ELSE Append(DigitsOf(n \div 10), n % 10)

RECURSIVE ZeroPad(_, _)
ZeroPad(s, w) == IF Len(s) >= w THEN s ELSE ZeroPad(<<0>> \o s, w)

\* Faulty variant: the file number is the loop index itself.
FrameFileNameZeroBased(i) == <<"img_", ZeroPad(DigitsOf(i), PadWidth), ".jpg">>

\* f'img_{i+1:05d}.jpg'
FrameFileName(i) == <<"img_", ZeroPad(DigitsOf(i + 1), PadWidth), ".jpg">>

\* Faulty variant: the clip starts at the keyframe.
FramePathAtKeyframe(video_name, keyframe, i) ==
    <<DATA_DIR, video_name,
      <<"img_", ZeroPad(DigitsOf(keyframe + i + 1), PadWidth), ".jpg">> >>

\* os.path.join(DATA_DIR, video_name, f'img_{i+1:05d}.jpg'); keyframe is in
\* scope at the call and is not used.
FramePath(video_name, keyframe, i) == <<DATA_DIR, video_name, FrameFileName(i)>>

\* --------------------------------------------------------------- file system
\* A video directory is kept as [full, odd]: it holds the files img_NNNNN.jpg
\* (five digits) numbered by `odd` when full is FALSE, and those numbered by
\* 1..451 except `odd` when full is TRUE.
NumberOf(digits) ==
    digits[1] * 10000 + digits[2] * 1000 + digits[3] * 100 + digits[4] * 10 + digits[5]

\* os.path.exists(frame_path)
PathExists(path, d) ==
    /\ path[1] = DATA_DIR
    /\ path[2] \in DOMAIN d
    /\ path[3][1] = "img_" /\ path[3][3] = ".jpg" /\ Len(path[3][2]) = PadWidth
    /\ LET n == NumberOf(path[3][2])
           dir == d[path[2]]
       IN  IF dir.full THEN n >= 1 /\ n <= NumFrames + 1 /\ n \notin dir.odd
                       ELSE n \in dir.odd

\* ------------------------------------------------------------------- frames
\* torch.zeros((3, IMG_HEIGHT, IMG_WIDTH))
ZeroFrame == <<0, 0, 0>>

\* The pixel value stored in an existing frame file (disk content).
PixelAt(path) ==
    (NumberOf(path[3][2]) * 7 + (IF path[2] = "vidA" THEN 0 ELSE 3)) % 256

\* read_image(path).float() / 255.0, then Resize and Normalize(mean, std).
ReadTransformed(path) ==
    LET px == PixelAt(path)
    IN  [c \in 1..3 |-> 1000 * px - 255 * MEAN[c]]

\* Faulty variant: a missing file is skipped instead of zero-filled.
AppendFrameSkipMissing(frames, path, d) ==
    IF PathExists(path, d) THEN Append(frames, ReadTransformed(path)) ELSE frames

\* One iteration of "for i in range(450)".
AppendFrame(frames, path, d) ==
    IF PathExists(path, d) THEN Append(frames, ReadTransformed(path))
                  ELSE Append(frames, ZeroFrame)

RECURSIVE FrameLoop(_, _, _, _, _, _)
\* Iterations i, i+1, ..., i+n-1 of "for i in range(450)", in that order, each
\* appending to the list the earlier ones left (the range is halved only to
\* keep the evaluation shallow).
FrameLoop(i, n, frames, video_name, keyframe, d) ==
    IF n = 0 \/ Len(frames) < 0 THEN frames
    ELSE IF n = 1 THEN AppendFrame(frames, FramePath(video_name, keyframe, i), d)
    ELSE LET h == n \div 2
         IN  FrameLoop(i + h, n - h,
                       FrameLoop(i, h, frames, video_name, keyframe, d),
                       video_name, keyframe, d)

\* int(self.annotations.iloc[idx, 1] * 30)
KeyframeOf(row) == (row.keyframe10 * FpsFactor) \div 10

\* Faulty variant: the categories are taken as 1-based.
LabelOfOneBased(row) == row.behavior_category - 1

\* int(self.annotations.iloc[idx, 6]) - 2
LabelOf(row) == row.behavior_category - LabelShift

LabelInvalid(label) == label < 0 \/ label >= NUM_CLASSES

Diagnostic(label, idx) ==
    IF LabelInvalid(label) THEN << <<"Invalid label", label, idx>> >> ELSE <<>>

\* VideoDataset.__getitem__(idx): what it returns and what it prints.
GetItemResult(ann, idx, d) ==
    LET row == ann[idx + 1]
        clip == FrameLoop(0, NumFrames, <<>>, row.video_name, KeyframeOf(row), d)
        label == LabelOf(row)
    IN  [idx |-> idx, clip |-> clip, label |-> label,
         printed |-> Diagnostic(label, idx)]

\* ------------------------------------------------------------ disk contents
NoItem == [idx |-> -1]

\* Frame numbers whose file may be the odd one out: both ends of 1..450 and
\* the first number past the clip.
Holes == (1..HoleSpan) \cup ((NumFrames - HoleSpan + 1)..(NumFrames + 1))

Disks == { [v \in Videos |-> [full |-> full[v], odd |-> M]] :
             M \in SUBSET Holes, full \in [Videos -> BOOLEAN] }

\* -------------------------------------------------------------- main: data
\* Category of the k-th row of a CSV of main: mostly 2..12, some rows outside.
CatOf(k) ==
    IF k % 7 = 3 THEN 13
    ELSE IF k % 7 = 5 THEN 1
    ELSE LabelShift + (k % NUM_CLASSES)

CsvRows(n) == [k \in 1..n |-> Row("vidA", 0, <<0, 0, 1, 1>>, CatOf(k))]

\* len(loader) with drop_last=False
NumBatches(n) == (n + BATCH_SIZE - 1) \div BATCH_SIZE

\* Index order of one pass of a loader: the sampler's permutation.
Rotation(n, r) == [j \in 1..n |-> (j - 1 + r) % n]

\* The batch a loader yields as batch number b (1-based) of `ord`.
BatchIdx(ord, b) ==
    SubSeq(ord, (b - 1) * BATCH_SIZE + 1, Min(b * BATCH_SIZE, Len(ord)))

BatchLabels(ann, idxs) == [j \in 1..Len(idxs) |-> LabelOf(ann[idxs[j] + 1])]

\* Classes the network may answer for a batch, one family member per seed.
Predict(seed, idxs) ==
    [j \in 1..Len(idxs) |->
        IF idxs[j] % (seed + 1) = 0 THEN (idxs[j] + 1) % NUM_CLASSES
        ELSE (idxs[j] + 3 + seed) % NUM_CLASSES]

RECURSIVE CountEq(_, _)
\* predicted.eq(labels).sum().item()
CountEq(p, l) ==
    IF Len(p) = 0 THEN 0
    ELSE (IF Head(p) = Head(l) THEN 1 ELSE 0) + CountEq(Tail(p), Tail(l))

TrainOps == <<"zero_grad", "forward_autocast", "backward_scaled",
              "scaler_step", "scaler_update">>
ZeroCounts == [o \in {TrainOps[k] : k \in 1..Len(TrainOps)} |-> 0]
Bump(c, o) == [c EXCEPT ![o] = @ + 1]

Trainable == [params |-> paramsVer, scaler |-> scalerVer, grad |-> gradFrom,
              calls |-> counts]

\* ------------------------------------------------------------ initial states
InitData(d) ==
    /\ disk = d
    /\ item = NoItem
    /\ prevItem = NoItem

InitMain(nT, nV) ==
    /\ pc = "start"
    /\ trainAnn = CsvRows(nT)
    /\ valAnn = CsvRows(nV)
    /\ epoch = 0
    /\ mode = "train"
    /\ running_loss = 0
    /\ val_loss = 0
    /\ correct = 0
    /\ total = 0
    /\ order = <<>>
    /\ pos = 0
    /\ labels = <<>>
    /\ predicted = <<>>
    /\ loss = 0
    /\ gradFrom = {}
    /\ paramsVer = 0
    /\ scalerVer = 0
    /\ stdout = <<>>
    /\ ops = <<>>
    /\ counts = ZeroCounts
    /\ processed = 0
    /\ seen = <<>>
    /\ visited = <<>>
    /\ trainEnd = Trainable

\* ------------------------------------------------------- the dataset reader
\* GetItemResult over every disk and row of the reader's table, evaluated once.
GetItemTable ==
    [d \in Disks |-> [idx \in 0..(DatasetLen(Annotations) - 1) |->
                        GetItemResult(Annotations, idx, d)]]

\* dataset[idx] for an index the sampler can produce.
GetItem(idx) ==
    /\ prevItem' = item
    /\ item' = GetItemTable[disk][idx]
    /\ UNCHANGED <<disk, mainVars>>

NextData == \E idx \in 0..(DatasetLen(Annotations) - 1) : GetItem(idx)

SpecData == (\E d \in Disks : InitData(d)) /\ InitMain(0, 0) /\ [][NextData]_vars

\* -------------------------------------------------------------------- main
Terminal == pc \in {"done", "crashed"}

Report(kind, ep, lossSum, nBatches, nCorrect, nTotal) ==
    [kind |-> kind, epoch |-> ep,
     loss_num |-> lossSum, loss_den |-> nBatches,
     acc_num |-> 100 * nCorrect, acc_den |-> nTotal,
     correct |-> nCorrect, total |-> nTotal]

\* History records of one accumulated batch: one per sample, the first one
\* carrying the batch's loss.
Samples(idxs, p, l, batchLoss) ==
    [j \in 1..Len(idxs) |->
        [idx |-> idxs[j], pred |-> p[j], label |-> l[j],
         loss |-> IF j = 1 THEN batchLoss ELSE 0]]

\* load_datasets(), model, criterion, optimizer and scaler construction.
LoadDatasets ==
    /\ pc = "start"
    /\ pc' = "epoch_head"
    /\ UNCHANGED <<dataVars, trainAnn, valAnn, epoch, mode, running_loss, val_loss,
                   correct, total, order, pos, labels, predicted, loss, gradFrom,
                   paramsVer, scalerVer, stdout, ops, counts, processed, seen,
                   visited, trainEnd>>

\* DataLoader(train_dataset, shuffle=True): the random sampler may refuse a
\* dataset without rows.
LoadDatasetsRefused ==
    /\ pc = "start"
    /\ DatasetLen(trainAnn) = 0
    /\ pc' = "crashed"
    /\ UNCHANGED <<dataVars, trainAnn, valAnn, epoch, mode, running_loss, val_loss,
                   correct, total, order, pos, labels, predicted, loss, gradFrom,
                   paramsVer, scalerVer, stdout, ops, counts, processed, seen,
                   visited, trainEnd>>

\* for epoch in range(EPOCHS): model.train(); the accumulators; iter(train_loader)
TrainBegin ==
    /\ pc = "epoch_head"
    /\ epoch < EPOCHS
    /\ mode' = "train"
    /\ running_loss' = 0
    /\ correct' = 0
    /\ total' = 0
    /\ \E r \in 0..MaxRot : order' = Rotation(DatasetLen(trainAnn), r)
    /\ pos' = 0
    /\ ops' = <<>>
    /\ counts' = ZeroCounts
    /\ processed' = 0
    /\ seen' = <<>>
    /\ pc' = "train_iter"
    /\ UNCHANGED <<dataVars, trainAnn, valAnn, epoch, val_loss, labels, predicted,
                   loss, gradFrom, paramsVer, scalerVer, stdout, visited, trainEnd>>

\* range(EPOCHS) is exhausted: main returns.
MainReturn ==
    /\ pc = "epoch_head"
    /\ epoch >= EPOCHS
    /\ pc' = "done"
    /\ UNCHANGED <<dataVars, trainAnn, valAnn, epoch, mode, running_loss, val_loss,
                   correct, total, order, pos, labels, predicted, loss, gradFrom,
                   paramsVer, scalerVer, stdout, ops, counts, processed, seen,
                   visited, trainEnd>>

\* for clips, labels in tqdm(train_loader): the next batch, or the loop's end.
\* A collated batch is never None, so the "continue" is not taken.
TrainIter ==
    /\ pc = "train_iter"
    /\ IF pos < NumBatches(Len(order))
       THEN /\ pos' = pos + 1
            /\ labels' = BatchLabels(trainAnn, BatchIdx(order, pos + 1))
            /\ visited' = Append(visited, <<"train", epoch, pos + 1>>)
            /\ ops' = <<>>
            /\ pc' = "zero_grad"
            /\ UNCHANGED trainEnd
       ELSE /\ pc' = "train_report"
            /\ trainEnd' = Trainable
            /\ UNCHANGED <<pos, labels, visited, ops>>
    /\ UNCHANGED <<dataVars, trainAnn, valAnn, epoch, mode, running_loss, val_loss,
                   correct, total, order, predicted, loss, gradFrom, paramsVer,
                   scalerVer, stdout, counts, processed, seen>>

\* Faulty variant: the gradients are not cleared.
ZeroGradKeepsGrad ==
    /\ pc = "zero_grad"
    /\ ops' = Append(ops, "zero_grad")
    /\ counts' = Bump(counts, "zero_grad")
    /\ pc' = "forward"
    /\ UNCHANGED <<dataVars, trainAnn, valAnn, epoch, mode, running_loss, val_loss,
                   correct, total, order, pos, labels, predicted, loss, paramsVer,
                   scalerVer, stdout, processed, seen, visited, trainEnd, gradFrom>>

\* optimizer.zero_grad()
ZeroGrad ==
    /\ pc = "zero_grad"
    /\ gradFrom' = {}
    /\ ops' = Append(ops, "zero_grad")
    /\ counts' = Bump(counts, "zero_grad")
    /\ pc' = "forward"
    /\ UNCHANGED <<dataVars, trainAnn, valAnn, epoch, mode, running_loss, val_loss,
                   correct, total, order, pos, labels, predicted, loss, paramsVer,
                   scalerVer, stdout, processed, seen, visited, trainEnd>>

\* with autocast(): outputs = model(clips); loss = criterion(outputs, labels)
Forward ==
    /\ pc = "forward"
    /\ \E seed \in 0..MaxSeed :
          /\ predicted' = Predict(seed, BatchIdx(order, pos))
          /\ loss' = 1 + seed
    /\ ops' = Append(ops, "forward_autocast")
    /\ counts' = Bump(counts, "forward_autocast")
    /\ pc' = "backward"
    /\ UNCHANGED <<dataVars, trainAnn, valAnn, epoch, mode, running_loss, val_loss,
                   correct, total, order, pos, labels, gradFrom, paramsVer,
                   scalerVer, stdout, processed, seen, visited, trainEnd>>

\* scaler.scale(loss).backward(): gradients accumulate into .grad
Backward ==
    /\ pc = "backward"
    /\ gradFrom' = gradFrom \cup {<<epoch, pos>>}
    /\ ops' = Append(ops, "backward_scaled")
    /\ counts' = Bump(counts, "backward_scaled")
    /\ pc' = "scaler_step"
    /\ UNCHANGED <<dataVars, trainAnn, valAnn, epoch, mode, running_loss, val_loss,
                   correct, total, order, pos, labels, predicted, loss, paramsVer,
                   scalerVer, stdout, processed, seen, visited, trainEnd>>

\* scaler.step(optimizer)
ScalerStep ==
    /\ pc = "scaler_step"
    /\ paramsVer' = paramsVer + 1
    /\ ops' = Append(ops, "scaler_step")
    /\ counts' = Bump(counts, "scaler_step")
    /\ pc' = "scaler_update"
    /\ UNCHANGED <<dataVars, trainAnn, valAnn, epoch, mode, running_loss, val_loss,
                   correct, total, order, pos, labels, predicted, loss, gradFrom,
                   scalerVer, stdout, processed, seen, visited, trainEnd>>

\* scaler.update()
ScalerUpdate ==
    /\ pc = "scaler_update"
    /\ scalerVer' = scalerVer + 1
    /\ ops' = Append(ops, "scaler_update")
    /\ counts' = Bump(counts, "scaler_update")
    /\ pc' = "accumulate"
    /\ UNCHANGED <<dataVars, trainAnn, valAnn, epoch, mode, running_loss, val_loss,
                   correct, total, order, pos, labels, predicted, loss, gradFrom,
                   paramsVer, stdout, processed, seen, visited, trainEnd>>

\* Faulty variant: total counts batches, not samples.
AccumulateBatchCount ==
    /\ pc = "accumulate"
    /\ running_loss' = running_loss + loss
    /\ total' = total + 1
    /\ correct' = correct + CountEq(predicted, labels)
    /\ seen' = seen \o Samples(BatchIdx(order, pos), predicted, labels, loss)
    /\ processed' = processed + 1
    /\ pc' = "train_iter"
    /\ UNCHANGED <<dataVars, trainAnn, valAnn, epoch, mode, val_loss, order, pos,
                   labels, predicted, loss, gradFrom, paramsVer, scalerVer, stdout,
                   ops, counts, visited, trainEnd>>

\* running_loss += loss.item(); total += labels.size(0); correct += ...
Accumulate ==
    /\ pc = "accumulate"
    /\ running_loss' = running_loss + loss
    /\ total' = total + Len(labels)
    /\ correct' = correct + CountEq(predicted, labels)
    /\ seen' = seen \o Samples(BatchIdx(order, pos), predicted, labels, loss)
    /\ processed' = processed + 1
    /\ pc' = "train_iter"
    /\ UNCHANGED <<dataVars, trainAnn, valAnn, epoch, mode, val_loss, order, pos,
                   labels, predicted, loss, gradFrom, paramsVer, scalerVer, stdout,
                   ops, counts, visited, trainEnd>>

\* epoch_loss = running_loss / len(train_loader);
\* epoch_accuracy = 100. * correct / total; print(...)
TrainReport ==
    /\ pc = "train_report"
    /\ IF NumBatches(DatasetLen(trainAnn)) = 0 \/ total = 0
       THEN /\ pc' = "crashed"
            /\ UNCHANGED stdout
       ELSE /\ stdout' = Append(stdout,
                           Report("train", epoch + 1, running_loss,
                                  NumBatches(DatasetLen(trainAnn)), correct, total))
            /\ pc' = "val_begin"
    /\ UNCHANGED <<dataVars, trainAnn, valAnn, epoch, mode, running_loss, val_loss,
                   correct, total, order, pos, labels, predicted, loss, gradFrom,
                   paramsVer, scalerVer, ops, counts, processed, seen, visited,
                   trainEnd>>

\* Faulty variant: correct and total are carried over from the training phase.
ValBeginNoReset ==
    /\ pc = "val_begin"
    /\ mode' = "eval"
    /\ val_loss' = 0
    /\ order' = Rotation(DatasetLen(valAnn), 0)
    /\ pos' = 0
    /\ ops' = <<>>
    /\ processed' = 0
    /\ seen' = <<>>
    /\ pc' = "val_iter"
    /\ UNCHANGED <<dataVars, trainAnn, valAnn, epoch, running_loss, labels,
                   predicted, loss, gradFrom, paramsVer, scalerVer, stdout, counts,
                   visited, trainEnd, correct, total>>

\* model.eval(); val_loss = 0.0; correct = 0; total = 0; iter(val_loader)
ValBegin ==
    /\ pc = "val_begin"
    /\ mode' = "eval"
    /\ val_loss' = 0
    /\ correct' = 0
    /\ total' = 0
    /\ order' = Rotation(DatasetLen(valAnn), 0)
    /\ pos' = 0
    /\ ops' = <<>>
    /\ processed' = 0
    /\ seen' = <<>>
    /\ pc' = "val_iter"
    /\ UNCHANGED <<dataVars, trainAnn, valAnn, epoch, running_loss, labels,
                   predicted, loss, gradFrom, paramsVer, scalerVer, stdout, counts,
                   visited, trainEnd>>

\* for clips, labels in tqdm(val_loader), under torch.no_grad()
ValIter ==
    /\ pc = "val_iter"
    /\ IF pos < NumBatches(Len(order))
       THEN /\ pos' = pos + 1
            /\ labels' = BatchLabels(valAnn, BatchIdx(order, pos + 1))
            /\ visited' = Append(visited, <<"val", epoch, pos + 1>>)
            /\ pc' = "val_forward"
       ELSE /\ pc' = "val_report"
            /\ UNCHANGED <<pos, labels, visited>>
    /\ UNCHANGED <<dataVars, trainAnn, valAnn, epoch, mode, running_loss, val_loss,
                   correct, total, order, predicted, loss, gradFrom, paramsVer,
                   scalerVer, stdout, ops, counts, processed, seen, trainEnd>>

\* Faulty variant: the validation loop steps the optimizer as the training loop does.
ValForwardSteps ==
    /\ pc = "val_forward"
    /\ \E seed \in 0..MaxSeed :
          /\ predicted' = Predict(seed, BatchIdx(order, pos))
          /\ loss' = 1 + seed
    /\ paramsVer' = paramsVer + 1
    /\ pc' = "val_accumulate"
    /\ UNCHANGED <<dataVars, trainAnn, valAnn, epoch, mode, running_loss, val_loss,
                   correct, total, order, pos, labels, gradFrom,
                   scalerVer, stdout, ops, counts, processed, seen, visited,
                   trainEnd>>

\* with autocast(): outputs = model(clips); loss = criterion(outputs, labels)
ValForward ==
    /\ pc = "val_forward"
    /\ \E seed \in 0..MaxSeed :
          /\ predicted' = Predict(seed, BatchIdx(order, pos))
          /\ loss' = 1 + seed
    /\ pc' = "val_accumulate"
    /\ UNCHANGED <<dataVars, trainAnn, valAnn, epoch, mode, running_loss, val_loss,
                   correct, total, order, pos, labels, gradFrom, paramsVer,
                   scalerVer, stdout, ops, counts, processed, seen, visited,
                   trainEnd>>

\* val_loss += loss.item(); total += labels.size(0); correct += ...
ValAccumulate ==
    /\ pc = "val_accumulate"
    /\ val_loss' = val_loss + loss
    /\ total' = total + Len(labels)
    /\ correct' = correct + CountEq(predicted, labels)
    /\ seen' = seen \o Samples(BatchIdx(order, pos), predicted, labels, loss)
    /\ processed' = processed + 1
    /\ pc' = "val_iter"
    /\ UNCHANGED <<dataVars, trainAnn, valAnn, epoch, mode, running_loss, order,
                   pos, labels, predicted, loss, gradFrom, paramsVer, scalerVer,
                   stdout, ops, counts, visited, trainEnd>>

\* val_epoch_loss = val_loss / len(val_loader);
\* val_epoch_accuracy = 100. * correct / total; print(...); next epoch
ValReport ==
    /\ pc = "val_report"
    /\ IF NumBatches(DatasetLen(valAnn)) = 0 \/ total = 0
       THEN /\ pc' = "crashed"
            /\ UNCHANGED <<stdout, epoch>>
       ELSE /\ stdout' = Append(stdout,
                           Report("val", epoch + 1, val_loss,
                                  NumBatches(DatasetLen(valAnn)), correct, total))
            /\ epoch' = epoch + 1
            /\ pc' = "epoch_head"
    /\ UNCHANGED <<dataVars, trainAnn, valAnn, mode, running_loss, val_loss,
                   correct, total, order, pos, labels, predicted, loss, gradFrom,
                   paramsVer, scalerVer, ops, counts, processed, seen, visited,
                   trainEnd>>

Next ==
    \/ LoadDatasets \/ LoadDatasetsRefused
    \/ TrainBegin \/ MainReturn
    \/ TrainIter \/ ZeroGrad \/ Forward \/ Backward \/ ScalerStep \/ ScalerUpdate
    \/ Accumulate \/ TrainReport
    \/ ValBegin \/ ValIter \/ ValForward \/ ValAccumulate \/ ValReport

Init ==
    /\ InitData([v \in Videos |-> [full |-> TRUE, odd |-> {}]])
    /\ \E nT \in 0..MaxTrain, nV \in 0..MaxVal : InitMain(nT, nV)

Spec == Init /\ [][Next]_vars

\* ================================================================ properties
HasItem == item # NoItem
ItemRow == Annotations[item.idx + 1]

\* The name img_NNNNN.jpg of frame file number n, and whether the video
\* directory v holds it.
NumberedName(n) == <<"img_", <<0, 0, n \div 100, (n \div 10) % 10, n % 10>>, ".jpg">>
FileOnDisk(v, n) == IF disk[v].full THEN n \notin disk[v].odd ELSE n \in disk[v].odd

\* C1: every clip __getitem__ returns holds exactly 450 frames, whatever
\* frame files exist.
C1_ClipLength == HasItem => Len(item.clip) = 450

C1_Witness ==
    /\ HasItem
    /\ Len(item.clip) = 450
    /\ \E i, j \in 1..Len(item.clip) : item.clip[i] = ZeroFrame /\ item.clip[j] # ZeroFrame

\* C2: position i of the returned clip is the transformed image of file
\* img_{i+1:05d}.jpg of the row's video when that file exists, and is the zero
\* frame exactly when it does not; a missing file shifts nothing.
C2_ZeroFill ==
    HasItem =>
        /\ DOMAIN item.clip = 1..450
        /\ \A i \in 0..449 :
              LET here == FileOnDisk(ItemRow.video_name, i + 1)
                  path == <<DATA_DIR, ItemRow.video_name, NumberedName(i + 1)>>
              IN  /\ here => item.clip[i + 1] = ReadTransformed(path)
                  /\ (item.clip[i + 1] = ZeroFrame) <=> ~here

C2_Witness ==
    /\ HasItem
    /\ ~FileOnDisk(ItemRow.video_name, 1)
    /\ FileOnDisk(ItemRow.video_name, 2)
    /\ ~FileOnDisk(ItemRow.video_name, 450)
    /\ item.clip[1] = ZeroFrame
    /\ item.clip[2] = ReadTransformed(<<DATA_DIR, ItemRow.video_name, NumberedName(2)>>)
    /\ item.clip[450] = ZeroFrame

\* C7: the label is the category minus 2; it is a class index exactly for the
\* categories 2..12; a label outside the classes is reported by one printed
\* line and returned unchanged together with the clip.
C7_LabelMapping ==
    HasItem =>
        LET c == ItemRow.behavior_category
        IN  /\ item.label = c - 2
            /\ (item.label \in 0..(NUM_CLASSES - 1)) <=> (c \in 2..12)
            /\ Len(item.clip) = 450
            /\ IF c \in 2..12
               THEN item.printed = <<>>
               ELSE item.printed = << <<"Invalid label", c - 2, item.idx>> >>

C7_Witness ==
    /\ HasItem
    /\ ItemRow.behavior_category = 13
    /\ item.label = 11
    /\ Len(item.printed) = 1
    /\ Len(item.clip) = 450

\* C10: two calls on rows of the same video return the same clip, whatever the
\* rows' keyframe, box and category are (the disk is the same for both).
C10_ClipIgnoresRow ==
    (HasItem /\ prevItem # NoItem
       /\ Annotations[prevItem.idx + 1].video_name = ItemRow.video_name)
    => item.clip = prevItem.clip

C10_Witness ==
    /\ HasItem /\ prevItem # NoItem
    /\ Annotations[prevItem.idx + 1].video_name = ItemRow.video_name
    /\ KeyframeOf(Annotations[prevItem.idx + 1]) # KeyframeOf(ItemRow)
    /\ Annotations[prevItem.idx + 1].box # ItemRow.box
    /\ Annotations[prevItem.idx + 1].behavior_category # ItemRow.behavior_category
    /\ item.clip = prevItem.clip
    /\ \E i, j \in 1..Len(item.clip) : item.clip[i] = ZeroFrame /\ item.clip[j] # ZeroFrame

\* ---------------------------------------------------------------------------
RECURSIVE SumLoss(_)
SumLoss(q) == IF Len(q) = 0 THEN 0 ELSE Head(q).loss + SumLoss(Tail(q))

Hits(q) == Cardinality({j \in 1..Len(q) : q[j].pred = q[j].label})

ReportKinds == [k \in 1..Len(stdout) |-> <<stdout[k].kind, stdout[k].epoch>>]

ExpectedReports ==
    [k \in 1..(2 * EPOCHS) |->
        IF k % 2 = 1 THEN <<"train", (k + 1) \div 2>> ELSE <<"val", k \div 2>>]

IsPrefix(p, q) == Len(p) <= Len(q) /\ p = SubSeq(q, 1, Len(p))

TrainPcs == {"train_iter", "zero_grad", "forward", "backward", "scaler_step",
             "scaler_update", "accumulate"}
ValPcs == {"val_begin", "val_iter", "val_forward", "val_accumulate", "val_report"}

\* C3: every run, whatever the sizes of the two sets (zero rows included),
\* ends having printed, for each epoch 1..EPOCHS, one training report and then
\* one validation report.
C3_ReportsEveryEpoch ==
    /\ IsPrefix(ReportKinds, ExpectedReports)
    /\ Terminal => ReportKinds = ExpectedReports

\* C4: correct and total count the samples accumulated so far in the phase and
\* the hits among them; a report's total is its dataset's size and its
\* accuracy lies in 0..100.
C4_AccuracyCounters ==
    /\ 0 <= correct /\ correct <= total
    /\ total = Len(seen)
    /\ correct = Hits(seen)
    /\ \A k \in 1..Len(stdout) :
          LET r == stdout[k]
          IN  /\ r.total = (IF r.kind = "train" THEN Len(trainAnn) ELSE Len(valAnn))
              /\ r.acc_den = r.total /\ r.acc_den > 0
              /\ r.acc_num = 100 * r.correct
              /\ 0 <= r.acc_num /\ r.acc_num <= 100 * r.acc_den

C4_Witness ==
    /\ pc = "done"
    /\ Len(stdout) = 2
    /\ stdout[1].total = 9 /\ stdout[1].correct > 0 /\ stdout[1].correct < 9
    /\ stdout[2].total = 9 /\ stdout[2].correct > 0 /\ stdout[2].correct < 9

\* C5: each training batch gets zero_grad, the forward pass under autocast,
\* backward on the scaled loss, scaler.step and scaler.update, once each and in
\* that order; between batches each has been called once per processed batch;
\* backward never adds to gradients of an earlier batch.
C5_BatchStepOrder ==
    /\ IsPrefix(ops, TrainOps)
    /\ pc = "zero_grad" => ops = <<>>
    /\ pc = "forward" => ops = SubSeq(TrainOps, 1, 1) /\ gradFrom = {}
    /\ pc = "backward" => ops = SubSeq(TrainOps, 1, 2) /\ gradFrom = {}
    /\ pc = "scaler_step" => ops = SubSeq(TrainOps, 1, 3)
    /\ pc = "scaler_update" => ops = SubSeq(TrainOps, 1, 4)
    /\ pc = "accumulate" => ops = TrainOps
    /\ pc \in {"scaler_step", "scaler_update", "accumulate"} =>
          gradFrom = {<<epoch, pos>>}
    /\ pc = "train_iter" => \A o \in DOMAIN counts : counts[o] = processed
    /\ pc \in TrainPcs =>
          /\ counts["scaler_step"] \in {processed, processed + 1}
          /\ processed \in {pos, pos - 1}
    /\ pc \in TrainPcs =>
          paramsVer = counts["scaler_step"] + epoch * NumBatches(Len(trainAnn))

C5_Witness ==
    /\ pc = "train_iter"
    /\ processed = 3
    /\ counts["scaler_step"] = 3 /\ counts["zero_grad"] = 3
    /\ gradFrom = {<<epoch, 3>>}

\* C6: main ends after exactly EPOCHS epochs, each having yielded every
\* training batch once, in order, before every validation batch once, and the
\* last thing printed is the last epoch's validation report.
ExpectedVisits ==
    LET nT == NumBatches(Len(trainAnn))
        nV == NumBatches(Len(valAnn))
    IN  [k \in 1..(EPOCHS * (nT + nV)) |->
            LET e == (k - 1) \div (nT + nV)
                b == ((k - 1) % (nT + nV)) + 1
            IN  IF b <= nT THEN <<"train", e, b>> ELSE <<"val", e, b - nT>>]

C6_LinearLoopCompletes ==
    /\ IsPrefix(visited, ExpectedVisits)
    /\ epoch <= EPOCHS
    /\ Terminal =>
          /\ pc = "done"
          /\ epoch = EPOCHS
          /\ visited = ExpectedVisits
          /\ Len(stdout) > 0
          /\ stdout[Len(stdout)].kind = "val" /\ stdout[Len(stdout)].epoch = EPOCHS

\* C8: from the end of the training loop on, through validation and its
\* report, the parameters, the optimizer state, the scaler state, the
\* gradients and the number of training calls are what they were when the
\* training loop ended.
C8_ValidationFrame ==
    /\ pc \notin TrainPcs => Trainable = trainEnd
    /\ pc \in ValPcs \ {"val_begin"} => mode = "eval" /\ ops = <<>>

C8_Witness ==
    /\ pc = "val_report"
    /\ processed = 2
    /\ paramsVer = 2 /\ scalerVer = 2
    /\ Trainable = trainEnd

====
